---- MODULE Spec2Model ----
(***************************************************************************)
(* The voice session engine of src/App.tsx (the App component, lines 9-250 *)
(* the second copy of the component at lines 401-600 has the same session  *)
(* logic): session start/stop, the channel callbacks onopen / onmessage /  *)
(* onerror / onclose, playback scheduling, transcript assembly and tool    *)
(* calls.  Every callback runs to completion; an async function is cut at  *)
(* its awaits, where any other callback may run.                           *)
(***************************************************************************)
EXTENDS Integers, Sequences, FiniteSets, TLC

(***************************************************************************)
(* Bounds of the model.                                                    *)
(***************************************************************************)
MaxStarts == 2      \* startSession invocations
MaxMsgs == 3        \* inbound channel messages
MaxClock == 2       \* ticks of an output context's clock
MaxMedia == 1       \* microphone blocks processed per session
MaxTexts == 1       \* sendText invocations that take effect
MaxStopMsgs == 1    \* inbound messages under SpecStop
MaxPlayMsgs == 3    \* inbound messages under SpecPlay

StartIds == 1..MaxStarts
MsgIds == 1..MaxMsgs
\* the messages of the model carry at most two audio parts and two function calls
SrcIds == 1..(MaxMsgs + MaxMsgs)
FcIds == 1..(MaxMsgs + MaxMsgs)

\* ConnectionStatus, src/unnamed/part_000:114-119
DISCONNECTED == "DISCONNECTED"
CONNECTING == "CONNECTING"
CONNECTED == "CONNECTED"
ERROR == "ERROR"
ConnectionStatus == {DISCONNECTED, CONNECTING, CONNECTED, ERROR}

VARIABLES
  \* ---- React state of the component (App.tsx:10-17)
  status, transcriptions, isUserSpeaking, isAiSpeaking, isProcessingTool,
  lastBooking,
  \* ---- refs (App.tsx:19-27); 0 stands for null
  inputAudioContextRef, outputAudioContextRef, nextStartTimeRef,
  activeSourcesRef, activeAudioCountRef, sessionPromiseRef,
  currentInputTranscriptionRef, currentOutputTranscriptionRef,
  \* ---- the environment the component talks to
  apiKey,        \* process.env.API_KEY is set
  micHeld,       \* the microphone streams getUserMedia returned whose tracks are live
  codec,         \* the sample block the codec is working on
  startCount,    \* startSession invocations so far; invocation n owns contexts n, channel n
  startPc,       \* where each startSession invocation stands
  inCtx, outCtx, \* state of each invocation's input / output AudioContext
  clock,         \* currentTime of each output AudioContext
  chan,          \* state of each invocation's channel (ai.live.connect)
  closeAsked,    \* channels on which session.close() was requested
  captureOn,     \* sessions whose onopen wired the script processor
  sent,          \* per channel, the outbound messages in order
  msgCount,      \* inbound messages so far
  handlers,      \* per inbound message, where its onmessage invocation stands
  started,       \* the source.start calls in order (one record per buffer source)
  srcState,      \* per buffer source: live, stopped, ended
  fcCount,       \* function calls received so far (their ids)
  received,      \* per function call id, the name it was received with
  responses,     \* the sendToolResponse calls in order
  flagTimers,    \* pending setTimeout(() => setIsProcessingTool(false), 500)
  \* ---- history
  lastOp,        \* the last user operation and the status it found
  cutSinceStart, \* an interrupt or stop happened since the last source.start
  lateSinceStart,\* a buffer arrived with the clock past nextStartTime since the last source.start
  turnLog,       \* the transcription deltas since the last cleared accumulators
  interruptSeen  \* an interrupted signal has been handled

stateVars == <<status, transcriptions, isUserSpeaking, isAiSpeaking,
               isProcessingTool, lastBooking>>
refVars == <<inputAudioContextRef, outputAudioContextRef, nextStartTimeRef,
             activeSourcesRef, activeAudioCountRef, sessionPromiseRef,
             currentInputTranscriptionRef, currentOutputTranscriptionRef>>
envVars == <<apiKey, micHeld, codec, startCount, startPc, inCtx, outCtx, clock, chan,
             closeAsked, captureOn, sent, msgCount, handlers, started,
             srcState, fcCount, received, responses, flagTimers>>
envVarsButSrc == <<apiKey, micHeld, codec, startCount, startPc, inCtx, outCtx, clock, chan,
                   closeAsked, captureOn, sent, msgCount, handlers, started,
                   fcCount, received, responses, flagTimers>>
histVars == <<lastOp, cutSinceStart, lateSinceStart, turnLog, interruptSeen>>
vars == <<stateVars, refVars, envVars, histVars>>

(***************************************************************************)
(* Helpers                                                                 *)
(***************************************************************************)
Max(a, b) == IF a >= b THEN a ELSE b

Op(name) == [op |-> name, pre |-> status]
Other == [op |-> "other", pre |-> DISCONNECTED]

Idle == [pc |-> "idle"]

(***************************************************************************)
(* Text.  A string is a sequence of characters; " " is the whitespace      *)
(* String.prototype.trim removes at both ends.                             *)
(***************************************************************************)
Chars == {"a", "b", " "}
IsSpace(c) == c = " "

RECURSIVE TrimStart(_)
TrimStart(s) ==
  IF s = <<>> THEN <<>>
  ELSE IF IsSpace(Head(s)) THEN TrimStart(Tail(s)) ELSE s

RECURSIVE TrimEnd(_)
TrimEnd(s) ==
  IF s = <<>> THEN <<>>
  ELSE IF IsSpace(s[Len(s)]) THEN TrimEnd(SubSeq(s, 1, Len(s) - 1)) ELSE s

Trim(s) == TrimEnd(TrimStart(s))

(***************************************************************************)
(* The mutable state one onmessage invocation reads and writes, as one     *)
(* record, so that the synchronous stretch between two awaits is one step. *)
(***************************************************************************)
MState ==
  [tool |-> isProcessingTool, timers |-> flagTimers, booking |-> lastBooking,
   resp |-> responses, sent |-> sent,
   ai |-> isAiSpeaking, cnt |-> activeAudioCountRef, nst |-> nextStartTimeRef,
   srcs |-> activeSourcesRef, started |-> started, src |-> srcState,
   inAcc |-> currentInputTranscriptionRef,
   outAcc |-> currentOutputTranscriptionRef,
   hist |-> transcriptions,
   cut |-> cutSinceStart, late |-> lateSinceStart, log |-> turnLog,
   seen |-> interruptSeen, op |-> Other]

Commit(m) ==
  /\ isProcessingTool' = m.tool
  /\ flagTimers' = m.timers
  /\ lastBooking' = m.booking
  /\ responses' = m.resp
  /\ sent' = m.sent
  /\ isAiSpeaking' = m.ai
  /\ activeAudioCountRef' = m.cnt
  /\ nextStartTimeRef' = m.nst
  /\ activeSourcesRef' = m.srcs
  /\ started' = m.started
  /\ srcState' = m.src
  /\ currentInputTranscriptionRef' = m.inAcc
  /\ currentOutputTranscriptionRef' = m.outAcc
  /\ transcriptions' = m.hist
  /\ cutSinceStart' = m.cut
  /\ lateSinceStart' = m.late
  /\ turnLog' = m.log
  /\ interruptSeen' = m.seen
  /\ lastOp' = m.op

\* source.stop() on every source of the live set (App.tsx:45-47, 211)
StopAll(src, srcs) ==
  [x \in SrcIds |-> IF x \in srcs /\ src[x] = "live" THEN "stopped" ELSE src[x]]

(***************************************************************************)
(* onmessage, App.tsx:137-217                                              *)
(***************************************************************************)
\* App.tsx:193-194: the transcription deltas are appended to the accumulators
AppendPartial(acc, delta) == acc \o delta

\* faulty variant: the assistant entry is emitted before the user entry
FlushEntriesSwapped(uText, aText) ==
  (IF aText # <<>> THEN <<[role |-> "assistant", text |-> aText]>> ELSE <<>>)
  \o (IF uText # <<>> THEN <<[role |-> "user", text |-> uText]>> ELSE <<>>)

\* App.tsx:196-208: the entries a turnComplete appends to the history
FlushEntries(uText, aText) ==
  (IF uText # <<>> THEN <<[role |-> "user", text |-> uText]>> ELSE <<>>)
  \o (IF aText # <<>> THEN <<[role |-> "assistant", text |-> aText]>> ELSE <<>>)

\* App.tsx:196-208, in an invocation of the onmessage of session h.s
TurnComplete(m, h) ==
  LET uText == Trim(m.inAcc)
      aText == Trim(m.outAcc)
  IN [m EXCEPT !.hist = IF uText # <<>> \/ aText # <<>>
                          THEN m.hist \o FlushEntries(uText, aText)
                          ELSE m.hist,
               !.inAcc = <<>>, !.outAcc = <<>>, !.log = <<>>,
               !.op = [op |-> "turnComplete", pre |-> status,
                       log |-> m.log, hist |-> m.hist, s |-> h.s]]

\* ctx.currentTime of the output context a ref holds (0 when the ref is null)
NowOf(ref) == IF ref = 0 THEN 0 ELSE clock[ref]

\* App.tsx:214: the playback clock after an interrupted signal
InterruptedNextStart(now) == 0

\* App.tsx:210-216
Interrupted(m) ==
  [m EXCEPT !.src = StopAll(m.src, m.srcs),
            !.srcs = {},
            !.cnt = 0,
            !.nst = InterruptedNextStart(NowOf(outputAudioContextRef)),
            !.ai = FALSE,
            !.cut = TRUE,
            !.seen = TRUE,
            !.op = [op |-> "interrupted", pre |-> status]]

\* App.tsx:193-216: what follows the audio parts, with no await in it
RunTail(m, h) ==
  LET msg == h.msg
      m1 == [m EXCEPT !.inAcc = AppendPartial(m.inAcc, msg.inT),
                      !.outAcc = AppendPartial(m.outAcc, msg.outT),
                      !.log = m.log
                        \o (IF msg.inT # <<>>
                            THEN <<[role |-> "user", text |-> msg.inT,
                                    msg |-> h.id, s |-> h.s]>>
                            ELSE <<>>)
                        \o (IF msg.outT # <<>>
                            THEN <<[role |-> "assistant", text |-> msg.outT,
                                    msg |-> h.id, s |-> h.s]>>
                            ELSE <<>>)]
      m2 == IF msg.turnComplete THEN TurnComplete(m1, h) ELSE m1
  IN IF msg.interrupted THEN Interrupted(m2) ELSE m2

\* faulty variant: every buffer is scheduled at the current clock time
ScheduleNow(nst, now) == now

\* App.tsx:173: the time the next buffer is scheduled at
ScheduleTime(nst, now) == Max(nst, now)

\* App.tsx:166-173: from part i on, up to the await of decodeAudioData
\* (App.tsx:175) of the first part that carries data while an output context
\* is set, or through the rest of the handler when there is none.
RECURSIVE RunAudio(_, _, _)
RunAudio(m, h, i) ==
  IF i > Len(h.msg.parts)
  THEN [m |-> RunTail(m, h), h |-> Idle]
  ELSE IF h.msg.parts[i].data /\ outputAudioContextRef # 0
       THEN LET ctx == outputAudioContextRef
            IN [m |-> [m EXCEPT !.ai = TRUE,
                                !.cnt = m.cnt + 1,
                                !.nst = ScheduleTime(m.nst, clock[ctx]),
                                !.late = m.late \/ clock[ctx] > m.nst],
                h |-> [h EXCEPT !.pc = "decode", !.i = i, !.ctx = ctx,
                                !.now = clock[ctx], !.seen = m.seen]]
       ELSE RunAudio(m, h, i + 1)

\* App.tsx:141: the tool names the handler answers
IsBound(name) == name = "bookAppointment"

\* App.tsx:140-161: from function call j on, up to the await of the action
\* (App.tsx:145) of the first bound one, or on into the audio parts.
RECURSIVE RunTool(_, _, _)
RunTool(m, h, j) ==
  IF j > Len(h.msg.fcs)
  THEN RunAudio([m EXCEPT !.timers = m.timers + 1], h, 1)
  ELSE IF IsBound(h.msg.fcs[j].name)
       THEN [m |-> m, h |-> [h EXCEPT !.pc = "action", !.i = j]]
       ELSE RunTool(m, h, j + 1)

\* App.tsx:138-139, 164
RunMessage(m, h) ==
  IF h.msg.toolCall
  THEN RunTool([m EXCEPT !.tool = TRUE], h, 1)
  ELSE RunAudio(m, h, 1)

\* no block is being converted
NoCodec == [pc |-> "none", samples |-> <<>>, bytes |-> <<>>, out |-> <<>>]

(***************************************************************************)
(* Initial state: the component after construction (App.tsx:10-27)         *)
(***************************************************************************)
Init ==
  /\ status = DISCONNECTED
  /\ transcriptions = <<>>
  /\ isUserSpeaking = FALSE
  /\ isAiSpeaking = FALSE
  /\ isProcessingTool = FALSE
  /\ lastBooking = 0
  /\ inputAudioContextRef = 0
  /\ outputAudioContextRef = 0
  /\ nextStartTimeRef = 0
  /\ activeSourcesRef = {}
  /\ activeAudioCountRef = 0
  /\ sessionPromiseRef = 0
  /\ currentInputTranscriptionRef = <<>>
  /\ currentOutputTranscriptionRef = <<>>
  /\ apiKey \in BOOLEAN
  /\ micHeld = {}
  /\ codec = NoCodec
  /\ startCount = 0
  /\ startPc = [s \in StartIds |-> "none"]
  /\ inCtx = [s \in StartIds |-> "none"]
  /\ outCtx = [s \in StartIds |-> "none"]
  /\ clock = [s \in StartIds |-> 0]
  /\ chan = [s \in StartIds |-> "none"]
  /\ closeAsked = {}
  /\ captureOn = {}
  /\ sent = [s \in StartIds |-> <<>>]
  /\ msgCount = 0
  /\ handlers = [h \in MsgIds |-> Idle]
  /\ started = <<>>
  /\ srcState = [x \in SrcIds |-> "none"]
  /\ fcCount = 0
  /\ received = [id \in FcIds |-> "none"]
  /\ responses = <<>>
  /\ flagTimers = 0
  /\ lastOp = [op |-> "init", pre |-> DISCONNECTED]
  /\ cutSinceStart = FALSE
  /\ lateSinceStart = FALSE
  /\ turnLog = <<>>
  /\ interruptSeen = FALSE

(***************************************************************************)
(* stopSession, App.tsx:39-61                                              *)
(***************************************************************************)
\* App.tsx:40-43: the channels asked to close
StopCloses(ref, asked) == IF ref # 0 THEN asked \cup {ref} ELSE asked

\* faulty variant: the context a ref holds is dropped without close()
CloseCtxLeaks(ctxs, ref) == ctxs

\* App.tsx:51-52: close() on the context a ref holds
CloseCtx(ctxs, ref) == IF ref # 0 THEN [ctxs EXCEPT ![ref] = "closed"] ELSE ctxs

\* App.tsx:57: the status stopSession leaves
StopStatus == DISCONNECTED

StopSession ==
  /\ closeAsked' = StopCloses(sessionPromiseRef, closeAsked)
  /\ sessionPromiseRef' = 0
  /\ srcState' = StopAll(srcState, activeSourcesRef)
  /\ activeSourcesRef' = {}
  /\ activeAudioCountRef' = 0
  /\ inCtx' = CloseCtx(inCtx, inputAudioContextRef)
  /\ outCtx' = CloseCtx(outCtx, outputAudioContextRef)
  /\ inputAudioContextRef' = 0
  /\ outputAudioContextRef' = 0
  /\ status' = StopStatus
  /\ isUserSpeaking' = FALSE
  /\ isAiSpeaking' = FALSE
  /\ isProcessingTool' = FALSE
  /\ cutSinceStart' = TRUE
  /\ lastOp' = [op |-> "stop", pre |-> status, ref |-> sessionPromiseRef,
                inRef |-> inputAudioContextRef,
                outRef |-> outputAudioContextRef, live |-> activeSourcesRef,
                flags |-> <<isUserSpeaking, isAiSpeaking, isProcessingTool>>]
  /\ UNCHANGED <<transcriptions, lastBooking, nextStartTimeRef,
                 currentInputTranscriptionRef, currentOutputTranscriptionRef,
                 apiKey, micHeld, codec, startCount, startPc, clock, chan, captureOn, sent,
                 msgCount, handlers, started, fcCount, received, responses, flagTimers,
                 lateSinceStart, turnLog, interruptSeen>>

(***************************************************************************)
(* startSession, App.tsx:89-243, cut at its three awaits                   *)
(***************************************************************************)
\* App.tsx:90-106: up to the first await
StartSession ==
  IF ~apiKey
  THEN /\ status' = ERROR
       /\ lastOp' = Op("start")
       /\ UNCHANGED <<transcriptions, isUserSpeaking, isAiSpeaking,
                      isProcessingTool, lastBooking, refVars, envVars,
                      cutSinceStart, lateSinceStart, turnLog, interruptSeen>>
  ELSE /\ startCount < MaxStarts
       /\ LET s == startCount + 1
          IN /\ startCount' = s
             /\ status' = CONNECTING
             /\ inCtx' = [inCtx EXCEPT ![s] = "open"]
             /\ outCtx' = [outCtx EXCEPT ![s] = "open"]
             /\ inputAudioContextRef' = s
             /\ outputAudioContextRef' = s
             /\ startPc' = [startPc EXCEPT ![s] = "resumeIn"]
       /\ lastOp' = Op("start")
       /\ UNCHANGED <<transcriptions, isUserSpeaking, isAiSpeaking,
                      isProcessingTool, lastBooking, nextStartTimeRef,
                      activeSourcesRef, activeAudioCountRef, sessionPromiseRef,
                      currentInputTranscriptionRef,
                      currentOutputTranscriptionRef, apiKey, micHeld, codec, clock, chan,
                      closeAsked, captureOn, sent, msgCount, handlers, started,
                      srcState, fcCount, received, responses, flagTimers, cutSinceStart,
                      lateSinceStart, turnLog, interruptSeen>>

\* App.tsx:239-242: the catch of startSession
StartFailed(s) ==
  /\ status' = ERROR
  /\ startPc' = [startPc EXCEPT ![s] = "failed"]
  /\ lastOp' = Other
  /\ UNCHANGED <<transcriptions, isUserSpeaking, isAiSpeaking,
                 isProcessingTool, lastBooking, refVars, apiKey, micHeld, codec, startCount,
                 inCtx, outCtx, clock, chan, closeAsked, captureOn, sent,
                 msgCount, handlers, started, srcState, fcCount, received, responses,
                 flagTimers, cutSinceStart, lateSinceStart, turnLog,
                 interruptSeen>>

StartStep(s, pc) ==
  /\ startPc' = [startPc EXCEPT ![s] = pc]
  /\ lastOp' = Other
  /\ UNCHANGED <<stateVars, refVars, apiKey, micHeld, codec, startCount, inCtx, outCtx, clock,
                 chan, closeAsked, captureOn, sent, msgCount, handlers,
                 started, srcState, fcCount, received, responses, flagTimers,
                 cutSinceStart, lateSinceStart, turnLog, interruptSeen>>

\* App.tsx:108: await inCtx.resume() settles; resume() of a closed context rejects
ResumeInSettled(s) ==
  /\ startPc[s] = "resumeIn"
  /\ IF inCtx[s] = "closed" THEN StartFailed(s) ELSE StartStep(s, "resumeOut")

\* App.tsx:109: await outCtx.resume() settles
ResumeOutSettled(s) ==
  /\ startPc[s] = "resumeOut"
  /\ IF outCtx[s] = "closed" THEN StartFailed(s) ELSE StartStep(s, "getUserMedia")

\* App.tsx:110-238: getUserMedia resolves; the channel is created and the
\* session handle stored
GetUserMediaResolved(s) ==
  /\ startPc[s] = "getUserMedia"
  /\ startPc' = [startPc EXCEPT ![s] = "done"]
  /\ chan' = [chan EXCEPT ![s] = "connecting"]
  /\ sessionPromiseRef' = s
  /\ micHeld' = micHeld \cup {s}
  /\ lastOp' = Other
  /\ UNCHANGED <<stateVars, inputAudioContextRef, outputAudioContextRef,
                 nextStartTimeRef, activeSourcesRef, activeAudioCountRef,
                 currentInputTranscriptionRef, currentOutputTranscriptionRef,
                 apiKey, codec, startCount, inCtx, outCtx, clock, closeAsked,
                 captureOn, sent, msgCount, handlers, started, srcState,
                 fcCount, received, responses, flagTimers, cutSinceStart, lateSinceStart,
                 turnLog, interruptSeen>>

\* App.tsx:110, 239-242: getUserMedia rejects (permission denied, no device)
GetUserMediaRejected(s) ==
  /\ startPc[s] = "getUserMedia"
  /\ StartFailed(s)

(***************************************************************************)
(* handleToggleConnection, App.tsx:245-248, and the effect cleanup that    *)
(* calls stopSession whatever the status, App.tsx:250                      *)
(***************************************************************************)
\* App.tsx:246: the statuses in which the toggle stops
ToggleStops(st) == st = CONNECTED \/ st = CONNECTING

HandleToggleConnection ==
  IF ToggleStops(status) THEN StopSession ELSE StartSession

Stop == StopSession

(***************************************************************************)
(* handleSendText, App.tsx:78-87 (and 462-470)                             *)
(***************************************************************************)
\* App.tsx:79: customText || textInput.trim()
SendMessage(customText, textInput) ==
  IF customText # <<>> THEN customText ELSE Trim(textInput)

\* faulty variant: the guard does not look at the message
SendTextGuardAnyText(message) == sessionPromiseRef # 0

\* App.tsx:80: the guard past which the text is appended and sent
SendTextGuard(message) == message # <<>> /\ sessionPromiseRef # 0

Count(seq, kind) == Cardinality({i \in 1..Len(seq) : seq[i] = kind})
RECURSIVE SumOver(_, _)
SumOver(S, kind) ==
  IF S = {} THEN 0
  ELSE LET x == CHOOSE y \in S : TRUE
       IN Count(sent[x], kind) + SumOver(S \ {x}, kind)

\* faulty variant: the updater drops the entries it was given
AppendEntryAlone(prev, entry) == <<entry>>

\* App.tsx:82: the updater of the history, [...prev, entry]
AppendEntry(prev, entry) == Append(prev, entry)

\* App.tsx:78-87
HandleSendText(customText, textInput) ==
  LET message == SendMessage(customText, textInput)
  IN IF SendTextGuard(message)
     THEN /\ SumOver(StartIds, "text") < MaxTexts
          /\ transcriptions' =
               AppendEntry(transcriptions, [role |-> "user", text |-> message])
          /\ sent' = [sent EXCEPT ![sessionPromiseRef] = Append(@, "text")]
          /\ lastOp' = [op |-> "sendText", pre |-> status,
                        nonEmpty |-> message # <<>>, took |-> TRUE]
          /\ UNCHANGED <<status, isUserSpeaking, isAiSpeaking,
                         isProcessingTool, lastBooking, refVars, apiKey, micHeld, codec,
                         startCount, startPc, inCtx, outCtx, clock, chan,
                         closeAsked, captureOn, msgCount, handlers, started,
                         srcState, fcCount, received, responses, flagTimers,
                         cutSinceStart, lateSinceStart, turnLog, interruptSeen>>
     ELSE /\ lastOp' = [op |-> "sendText", pre |-> status,
                        nonEmpty |-> message # <<>>, took |-> FALSE]
          /\ UNCHANGED <<stateVars, refVars, envVars, cutSinceStart,
                         lateSinceStart, turnLog, interruptSeen>>

(***************************************************************************)
(* The channel callbacks other than onmessage                              *)
(***************************************************************************)
\* App.tsx:115-136: onopen
OnOpen(s) ==
  /\ chan[s] = "connecting"
  /\ chan' = [chan EXCEPT ![s] = "open"]
  /\ status' = CONNECTED
  /\ captureOn' = captureOn \cup {s}
  /\ sent' = [sent EXCEPT ![s] = Append(@, "greeting")]
  /\ lastOp' = Other
  /\ UNCHANGED <<transcriptions, isUserSpeaking, isAiSpeaking,
                 isProcessingTool, lastBooking, refVars, apiKey, micHeld, codec, startCount,
                 startPc, inCtx, outCtx, clock, closeAsked, msgCount,
                 handlers, started, srcState, fcCount, received, responses, flagTimers,
                 cutSinceStart, lateSinceStart, turnLog, interruptSeen>>

\* App.tsx:218-222: onerror.  The channel closes after an error.
OnError(s) ==
  /\ chan[s] \in {"connecting", "open"}
  /\ chan' = [chan EXCEPT ![s] = "errored"]
  /\ status' = ERROR
  /\ lastOp' = Other
  /\ UNCHANGED <<transcriptions, isUserSpeaking, isAiSpeaking,
                 isProcessingTool, lastBooking, refVars, apiKey, micHeld, codec, startCount,
                 startPc, inCtx, outCtx, clock, closeAsked, captureOn, sent,
                 msgCount, handlers, started, srcState, fcCount, received, responses,
                 flagTimers, cutSinceStart, lateSinceStart, turnLog,
                 interruptSeen>>

\* App.tsx:223: onclose, of a close by the server, of the close stopSession
\* asked for (session.close() runs once the channel is open), or after an error
OnClose(s) ==
  /\ chan[s] \in {"open", "errored"}
  /\ chan' = [chan EXCEPT ![s] = "closed"]
  /\ status' = DISCONNECTED
  /\ lastOp' = Other
  /\ UNCHANGED <<transcriptions, isUserSpeaking, isAiSpeaking,
                 isProcessingTool, lastBooking, refVars, apiKey, micHeld, codec, startCount,
                 startPc, inCtx, outCtx, clock, closeAsked, captureOn, sent,
                 msgCount, handlers, started, srcState, fcCount, received, responses,
                 flagTimers, cutSinceStart, lateSinceStart, turnLog,
                 interruptSeen>>

\* App.tsx:124: the "user is speaking" signal of one block
ACTIVITY_THRESHOLD == 5     \* 0.05, in hundredths
UserSpeaking(peak) == peak > ACTIVITY_THRESHOLD

\* App.tsx:120-127: onaudioprocess, one microphone block with the given peak
\* amplitude (in hundredths); a closed input context processes no block
AudioProcess(s, peak) ==
  /\ s \in captureOn
  /\ inCtx[s] = "open"
  /\ Count(sent[s], "media") < MaxMedia
  /\ isUserSpeaking' = UserSpeaking(peak)
  /\ sent' = [sent EXCEPT ![s] = Append(@, "media")]
  /\ lastOp' = Other
  /\ UNCHANGED <<status, transcriptions, isAiSpeaking, isProcessingTool,
                 lastBooking, refVars, apiKey, micHeld, codec, startCount, startPc, inCtx,
                 outCtx, clock, chan, closeAsked, captureOn, msgCount,
                 handlers, started, srcState, fcCount, received, responses, flagTimers,
                 cutSinceStart, lateSinceStart, turnLog, interruptSeen>>

(***************************************************************************)
(* onmessage and its continuations                                         *)
(***************************************************************************)
HandlerFrame ==
  UNCHANGED <<status, isUserSpeaking, inputAudioContextRef,
              outputAudioContextRef, sessionPromiseRef, apiKey, micHeld, codec, startCount,
              startPc, inCtx, outCtx, clock, chan, closeAsked, captureOn>>

\* The invocations of onmessage after one of them ran a synchronous stretch.
\* An invocation suspended at the await of decodeAudioData remembers whether an
\* interrupted signal was handled meanwhile.
Handlers(hid, r) ==
  [k \in MsgIds |->
     IF k = hid THEN r.h
     ELSE IF r.m.op.op = "interrupted" /\ handlers[k].pc = "decode"
          THEN [handlers[k] EXCEPT !.hit = TRUE]
          ELSE handlers[k]]

\* App.tsx:137: a message arrives on an open channel
OnMessage(s, msg) ==
  /\ chan[s] = "open"
  /\ msgCount < MaxMsgs
  /\ LET hid == msgCount + 1
         h == [pc |-> "run", id |-> hid, s |-> s, msg |-> msg, i |-> 0,
               ctx |-> 0, now |-> 0, seen |-> FALSE, hit |-> FALSE,
               base |-> fcCount]
         r == RunMessage(MState, h)
     IN /\ Commit(r.m)
        /\ handlers' = Handlers(hid, r)
        /\ msgCount' = hid
        /\ fcCount' = fcCount + Len(msg.fcs)
        /\ received' = [id \in FcIds |->
                          IF id > fcCount /\ id <= fcCount + Len(msg.fcs)
                          THEN msg.fcs[id - fcCount].name
                          ELSE received[id]]
  /\ HandlerFrame

\* App.tsx:146-151: the action settled and the booking was recorded; each
\* response is logged with whether the catch sent it
ActionSucceeded(m, h, id) ==
  [m EXCEPT !.booking = id,
            !.resp = Append(m.resp, [id |-> id, name |-> h.msg.fcs[h.i].name,
                                     status |-> "success",
                                     failed |-> FALSE]),
            !.sent = [m.sent EXCEPT ![h.s] = Append(@, "toolResponse")]]

\* faulty variant: the catch answers nothing
ActionFailedSilent(m, h, id) == m

\* App.tsx:152-158: the catch
ActionFailed(m, h, id) ==
  [m EXCEPT !.resp = Append(m.resp, [id |-> id, name |-> h.msg.fcs[h.i].name,
                                     status |-> "error",
                                     failed |-> TRUE]),
            !.sent = [m.sent EXCEPT ![h.s] = Append(@, "toolResponse")]]

\* App.tsx:145-158: the await of the action settles (the timer fires); reading
\* the fields of absent args at line 146 throws and the catch answers
ActionSettled(hid) ==
  /\ handlers[hid].pc = "action"
  /\ LET h == handlers[hid]
         j == h.i
         id == h.base + j
         m1 == IF h.msg.fcs[j].args
               THEN ActionSucceeded(MState, h, id)
               ELSE ActionFailed(MState, h, id)
         r == RunTool(m1, h, j + 1)
     IN /\ Commit(r.m)
        /\ handlers' = Handlers(hid, r)
  /\ UNCHANGED <<msgCount, fcCount, received>>
  /\ HandlerFrame

\* App.tsx:532-538: the catch of the second App component of the file
\* (App.tsx:401-778)
ActionFailed2(m, h, id) ==
  [m EXCEPT !.resp = Append(m.resp, [id |-> id, name |-> h.msg.fcs[h.i].name,
                                     status |-> "success",
                                     failed |-> TRUE]),
            !.sent = [m.sent EXCEPT ![h.s] = Append(@, "toolResponse")]]

\* App.tsx:521-539: the second App component's handler, which differs from
\* the first in the action (a fetch of the booking backend) and in the catch:
\* the await of the fetch settles; the fetch rejects, or reading the fields of
\* absent args at line 527 throws, and the catch answers
ActionSettled2(hid) ==
  /\ handlers[hid].pc = "action"
  /\ \E fetched \in BOOLEAN :
       LET h == handlers[hid]
           j == h.i
           id == h.base + j
           m1 == IF fetched /\ h.msg.fcs[j].args
                 THEN ActionSucceeded(MState, h, id)
                 ELSE ActionFailed2(MState, h, id)
           r == RunTool(m1, h, j + 1)
       IN /\ Commit(r.m)
          /\ handlers' = Handlers(hid, r)
  /\ UNCHANGED <<msgCount, fcCount, received>>
  /\ HandlerFrame

\* App.tsx:176-186: the decoded buffer is started and joins the live set
StartSource(m, h) ==
  LET x == Len(m.started) + 1
      d == h.msg.parts[h.i].dur
  IN [m EXCEPT !.started = Append(@, [ctx |-> h.ctx, t |-> m.nst, d |-> d,
                                      at |-> clock[h.ctx], handledAt |-> h.now,
                                      afterInterrupt |-> h.seen,
                                      msg |-> h.id, part |-> h.i,
                                      hit |-> h.hit,
                                      afterCut |-> m.cut, late |-> m.late]),
               !.src = [@ EXCEPT ![x] = "live"],
               !.nst = m.nst + d,
               !.srcs = m.srcs \cup {x},
               !.cut = FALSE,
               !.late = FALSE]

\* App.tsx:187: the catch of a failed decode
DecodeFailed(m) == [m EXCEPT !.cnt = m.cnt - 1]

\* App.tsx:175-187: the await of decodeAudioData settles
DecodeSettled(hid) ==
  /\ handlers[hid].pc = "decode"
  /\ LET h == handlers[hid]
         m1 == IF h.msg.parts[h.i].ok
               THEN StartSource(MState, h)
               ELSE DecodeFailed(MState)
         r == RunAudio(m1, h, h.i + 1)
     IN /\ Commit(r.m)
        /\ handlers' = Handlers(hid, r)
  /\ UNCHANGED <<msgCount, fcCount, received>>
  /\ HandlerFrame

\* The moment a source's playback ends by itself
EndTime(e) == Max(e.t, e.at) + e.d

\* App.tsx:179-183: onended, of a source that played to its end or was stopped
SourceEnded(x) ==
  /\ x \in 1..Len(started)
  /\ \/ srcState[x] = "stopped"
     \/ /\ srcState[x] = "live"
        /\ outCtx[started[x].ctx] = "open"
        /\ clock[started[x].ctx] >= EndTime(started[x])
  /\ srcState' = [srcState EXCEPT ![x] = "ended"]
  /\ activeSourcesRef' = activeSourcesRef \ {x}
  /\ IF activeAudioCountRef - 1 <= 0
     THEN /\ isAiSpeaking' = FALSE
          /\ activeAudioCountRef' = 0
     ELSE /\ activeAudioCountRef' = activeAudioCountRef - 1
          /\ UNCHANGED isAiSpeaking
  /\ lastOp' = Other
  /\ UNCHANGED <<status, transcriptions, isUserSpeaking, isProcessingTool,
                 lastBooking, inputAudioContextRef, outputAudioContextRef,
                 nextStartTimeRef, sessionPromiseRef,
                 currentInputTranscriptionRef, currentOutputTranscriptionRef,
                 envVarsButSrc, cutSinceStart, lateSinceStart, turnLog,
                 interruptSeen>>

\* App.tsx:161: the timer that clears the tool-processing flag fires
FlagTimerFired ==
  /\ flagTimers > 0
  /\ flagTimers' = flagTimers - 1
  /\ isProcessingTool' = FALSE
  /\ lastOp' = Other
  /\ UNCHANGED <<status, transcriptions, isUserSpeaking, isAiSpeaking,
                 lastBooking, refVars, apiKey, micHeld, codec, startCount, startPc, inCtx,
                 outCtx, clock, chan, closeAsked, captureOn, sent, msgCount,
                 handlers, started, srcState, fcCount, received, responses,
                 cutSinceStart, lateSinceStart, turnLog, interruptSeen>>

\* ctx.currentTime of a running output context advances
Tick(c) ==
  /\ outCtx[c] = "open"
  /\ clock[c] < MaxClock
  /\ clock' = [clock EXCEPT ![c] = @ + 1]
  /\ lastOp' = Other
  /\ UNCHANGED <<stateVars, refVars, apiKey, micHeld, codec, startCount, startPc, inCtx,
                 outCtx, chan, closeAsked, captureOn, sent, msgCount,
                 handlers, started, srcState, fcCount, received, responses, flagTimers,
                 cutSinceStart, lateSinceStart, turnLog, interruptSeen>>

(***************************************************************************)
(* Inputs                                                                  *)
(***************************************************************************)
Durations == {1, 2}
Peaks == {0, 50}            \* peak amplitudes of a block, in hundredths
Texts == {<<>>, <<" ">>, <<"a">>}

EmptyMsg ==
  [toolCall |-> FALSE, fcs |-> <<>>, parts |-> <<>>, inT |-> <<>>,
   outT |-> <<>>, turnComplete |-> FALSE, interrupted |-> FALSE]

AudioPart(d, ok) == [data |-> TRUE, ok |-> ok, dur |-> d]
Call(name, args) == [name |-> name, args |-> args]

(***************************************************************************)
(* Spec: the session lifecycle under every interleaving of toggle, stop,   *)
(* sendText, the awaits of startSession and the channel callbacks          *)
(***************************************************************************)
Next ==
  \/ HandleToggleConnection
  \/ Stop
  \/ \E s \in StartIds : ResumeInSettled(s)
  \/ \E s \in StartIds : ResumeOutSettled(s)
  \/ \E s \in StartIds : GetUserMediaResolved(s)
  \/ \E s \in StartIds : GetUserMediaRejected(s)
  \/ \E s \in StartIds : OnOpen(s)
  \/ \E s \in StartIds : OnError(s)
  \/ \E s \in StartIds : OnClose(s)
  \/ \E c \in Texts, t \in Texts : HandleSendText(c, t)

Spec == Init /\ [][Next]_vars

(***************************************************************************)
(* Properties of the session lifecycle (under Spec)                        *)
(***************************************************************************)
StopStep == lastOp'.op = "stop"

\* C6: stop() called while status is Disconnected leaves every piece of
\* session state unchanged and closes no channel and no audio context (again).
C6_IdempotentStop ==
  [][(StopStep /\ status = DISCONNECTED)
       => UNCHANGED <<stateVars, refVars, closeAsked, inCtx, outCtx,
                      srcState>>]_vars

\* C7: status becomes Connecting only by a start() issued while status is
\* Disconnected or Error, and becomes Connected only from Connecting, by the
\* onopen of the channel the most recent start() created.
C7_StateMachine ==
  [][/\ (status' = CONNECTING /\ status # CONNECTING)
          => (lastOp'.op = "start" /\ status \in {DISCONNECTED, ERROR})
     /\ (status' = CONNECTED /\ status # CONNECTED)
          => /\ status = CONNECTING
             /\ chan[startCount] = "connecting"
             /\ chan'[startCount] = "open"]_vars

\* the channels that are opened or being opened and were not asked to close
OpenChannels == {s \in StartIds : chan[s] \in {"connecting", "open"} /\ s \notin closeAsked}

\* C8: there is never more than one channel that is open or being opened and
\* has not been asked to close.
C8_OneSession == Cardinality(OpenChannels) <= 1

\* C9: sendText appends a user entry and forwards the text if and only if the
\* message is non-empty and status is Connected.
C9_SendTextOnlyConnected ==
  lastOp.op = "sendText"
    => (lastOp.took <=> (lastOp.nonEmpty /\ lastOp.pre = CONNECTED))

OpenIn == {s \in StartIds : inCtx[s] = "open"}
OpenOut == {s \in StartIds : outCtx[s] = "open"}

\* C10: whenever status leaves Connected (server close, channel error, user
\* stop) the audio contexts of the session are closed, so that no context is
\* left open for the next start() to add a second one to.
C10_DevicesReleased ==
  [][(status = CONNECTED /\ status' # CONNECTED)
       => (OpenIn' = {} /\ OpenOut' = {})]_vars

\* C11: in the state right after stop(), no microphone stream that a start()
\* acquired is still held.
C11_MicReleased == lastOp.op = "stop" => micHeld = {}

\* C16: once status is Error it changes only by stop() (to Disconnected) or by
\* start() (to Connecting); no channel callback moves it out of Error.
C16_ErrorSticky ==
  [][(status = ERROR /\ status' # ERROR)
       => \/ lastOp'.op = "stop" /\ status' = DISCONNECTED
          \/ lastOp'.op = "start" /\ status' = CONNECTING]_vars

(***************************************************************************)
(* SpecStop: one session, with playback, capture and a tool call, stopped  *)
(* at any moment                                                           *)
(***************************************************************************)
\* the toggle, with start() allowed once
ToggleOnce ==
  /\ ToggleStops(status) \/ startCount = 0
  /\ HandleToggleConnection

StopMsgs ==
  {[EmptyMsg EXCEPT !.parts = <<AudioPart(1, TRUE)>>],
   [EmptyMsg EXCEPT !.toolCall = TRUE,
                    !.fcs = <<Call("bookAppointment", TRUE)>>,
                    !.parts = <<AudioPart(1, TRUE)>>]}

NextStop ==
  \/ ToggleOnce
  \/ Stop
  \/ \E s \in StartIds : ResumeInSettled(s)
  \/ \E s \in StartIds : ResumeOutSettled(s)
  \/ \E s \in StartIds : GetUserMediaResolved(s)
  \/ \E s \in StartIds : GetUserMediaRejected(s)
  \/ \E s \in StartIds : OnOpen(s)
  \/ \E s \in StartIds : OnError(s)
  \/ \E s \in StartIds : OnClose(s)
  \/ \E s \in StartIds, peak \in Peaks : AudioProcess(s, peak)
  \/ \E s \in StartIds, msg \in StopMsgs : msgCount < MaxStopMsgs /\ OnMessage(s, msg)
  \/ \E h \in MsgIds : ActionSettled(h)
  \/ \E h \in MsgIds : DecodeSettled(h)
  \/ \E x \in SrcIds : SourceEnded(x)
  \/ FlagTimerFired

SpecStop == Init /\ [][NextStop]_vars

\* C5: right after stop(), whatever the status it was called in, status is
\* Disconnected, the channel of the session handle was asked to close and the
\* handle is null, every source of the live set is stopped and the set is
\* empty, both audio contexts are closed and their refs null, and the
\* user-speaking, assistant-speaking and tool-processing flags are false.
C5_StopTearsDown ==
  lastOp.op = "stop" =>
    /\ status = DISCONNECTED
    /\ lastOp.ref # 0 => lastOp.ref \in closeAsked
    /\ sessionPromiseRef = 0
    /\ \A x \in lastOp.live : srcState[x] = "stopped"
    /\ activeSourcesRef = {}
    /\ lastOp.inRef # 0 => inCtx[lastOp.inRef] = "closed"
    /\ lastOp.outRef # 0 => outCtx[lastOp.outRef] = "closed"
    /\ inputAudioContextRef = 0
    /\ outputAudioContextRef = 0
    /\ ~isUserSpeaking /\ ~isAiSpeaking /\ ~isProcessingTool

\* a stop() of a connected session that had a live source, open contexts, a
\* session handle and all three flags raised
C5_Witness ==
  /\ lastOp.op = "stop"
  /\ lastOp.pre = CONNECTED
  /\ lastOp.live # {}
  /\ lastOp.ref # 0 /\ lastOp.inRef # 0 /\ lastOp.outRef # 0
  /\ lastOp.flags = <<TRUE, TRUE, TRUE>>

(***************************************************************************)
(* SpecPlay: one connected session receiving audio and interrupted         *)
(* signals while the output clock advances                                 *)
(***************************************************************************)
\* the toggle pressed once, to start
StartOnce ==
  /\ startCount = 0
  /\ ~ToggleStops(status)
  /\ HandleToggleConnection

PlayMsgs ==
  {[EmptyMsg EXCEPT !.parts = <<AudioPart(d, TRUE)>>] : d \in Durations}
  \cup {[EmptyMsg EXCEPT !.parts = <<AudioPart(1, FALSE)>>],
        [EmptyMsg EXCEPT !.interrupted = TRUE]}

NextPlay ==
  \/ StartOnce
  \/ \E s \in StartIds : ResumeInSettled(s)
  \/ \E s \in StartIds : ResumeOutSettled(s)
  \/ \E s \in StartIds : GetUserMediaResolved(s)
  \/ \E s \in StartIds : OnOpen(s)
  \/ \E s \in StartIds, msg \in PlayMsgs : msgCount < MaxPlayMsgs /\ OnMessage(s, msg)
  \/ \E h \in MsgIds : DecodeSettled(h)
  \/ \E x \in SrcIds : SourceEnded(x)
  \/ \E c \in StartIds : Tick(c)

SpecPlay == Init /\ [][NextPlay]_vars

\* two source.start calls in a row with no interrupted signal and no stop
\* between them
Consecutive(k) == k + 1 <= Len(started) /\ ~started[k + 1].afterCut

C2_BargeInResets ==
  /\ lastOp.op = "interrupted" =>
       /\ activeSourcesRef = {}
       /\ nextStartTimeRef <= NowOf(outputAudioContextRef)
  /\ \A k \in 1..Len(started) :
       started[k].afterInterrupt => started[k].t >= started[k].handledAt

(***************************************************************************)
(* Tool calls: one session, messages that carry function calls, the        *)
(* actions and the flag timers settling in any order.  The timer of an     *)
(* action always fires, hence the weak fairness on ActionSettled.          *)
(***************************************************************************)
MaxToolMsgs == 2

ToolMsgs ==
  {[EmptyMsg EXCEPT !.toolCall = TRUE, !.fcs = fcs] :
     fcs \in {<<Call("cancelAppointment", TRUE)>>,
              <<Call("bookAppointment", TRUE), Call("bookAppointment", FALSE)>>,
              <<Call("cancelAppointment", TRUE), Call("bookAppointment", TRUE)>>}}

NextTool ==
  \/ ToggleOnce
  \/ \E s \in StartIds : ResumeInSettled(s)
  \/ \E s \in StartIds : ResumeOutSettled(s)
  \/ \E s \in StartIds : GetUserMediaResolved(s)
  \/ \E s \in StartIds : OnOpen(s)
  \/ \E s \in StartIds : OnClose(s)
  \/ \E s \in StartIds, msg \in ToolMsgs : msgCount < MaxToolMsgs /\ OnMessage(s, msg)
  \/ \E h \in MsgIds : ActionSettled(h)
  \/ FlagTimerFired

SpecTool ==
  Init /\ [][NextTool]_vars /\ \A h \in MsgIds : WF_vars(ActionSettled(h))

\* the sendToolResponse calls issued so far that carry the id
ResponsesTo(id) == {k \in 1..Len(responses) : responses[k].id = id}

\* C3: every received call named bookAppointment is eventually answered by
\* exactly one sendToolResponse carrying its id and name, no id is ever
\* answered twice, and a call with any other name is never answered.
C3_ToolCorrelation ==
  /\ [](\A id \in FcIds :
          /\ Cardinality(ResponsesTo(id)) <= 1
          /\ received[id] # "bookAppointment" => ResponsesTo(id) = {}
          /\ \A k \in ResponsesTo(id) : responses[k].name = received[id])
  /\ []<>(\A id \in FcIds :
            received[id] = "bookAppointment" => Cardinality(ResponsesTo(id)) = 1)

\* two bound calls of one message answered once each, one by the catch, and a
\* call with another name left unanswered, all handlers finished
C3_Witness ==
  /\ \A h \in MsgIds : handlers[h] = Idle
  /\ \E a, b, c \in FcIds :
       /\ a # b
       /\ received[a] = "bookAppointment" /\ received[b] = "bookAppointment"
       /\ received[c] = "cancelAppointment"
       /\ Cardinality(ResponsesTo(a)) = 1 /\ Cardinality(ResponsesTo(b)) = 1
       /\ ResponsesTo(c) = {}
       /\ \E k \in ResponsesTo(b) : responses[k].status = "error"

\* the bookAppointment calls received and not yet answered
Outstanding ==
  {id \in FcIds : received[id] = "bookAppointment" /\ ResponsesTo(id) = {}}

\* C13: the tool-processing flag is true exactly when at least one tool
\* invocation is outstanding (received and not yet answered).
C13_FlagIffOutstanding == isProcessingTool <=> Outstanding # {}

\* a message has serverContent for the handler to work on
HasContent(msg) ==
  \/ msg.parts # <<>>
  \/ msg.inT # <<>>
  \/ msg.outT # <<>>
  \/ msg.turnComplete
  \/ msg.interrupted

\* C14: while a handler waits for a bookAppointment action to settle, nothing
\* else of its message is waiting with it: every function call of the message
\* has been taken up and the message has no serverContent left to handle.
C14_NonBlocking ==
  \A h \in MsgIds :
    handlers[h].pc = "action"
      => /\ handlers[h].i = Len(handlers[h].msg.fcs)
         /\ ~HasContent(handlers[h].msg)

(***************************************************************************)
(* Transcription: one session and messages that carry transcription deltas *)
(* and turnComplete.                                                       *)
(***************************************************************************)
MaxTextMsgs == 3

Deltas == {<<>>, <<"a">>, <<" ">>}

TextMsgs ==
  {[EmptyMsg EXCEPT !.inT = i, !.outT = o, !.turnComplete = t] :
     i \in Deltas, o \in Deltas, t \in BOOLEAN} \ {EmptyMsg}

NextText ==
  \/ StartOnce
  \/ \E s \in StartIds : ResumeInSettled(s)
  \/ \E s \in StartIds : ResumeOutSettled(s)
  \/ \E s \in StartIds : GetUserMediaResolved(s)
  \/ \E s \in StartIds : OnOpen(s)
  \/ \E s \in StartIds, msg \in TextMsgs : msgCount < MaxTextMsgs /\ OnMessage(s, msg)

SpecText == Init /\ [][NextText]_vars

\* the deltas of one role in a log of deltas, concatenated in arrival order
RECURSIVE ConcatRole(_, _)
ConcatRole(log, role) ==
  IF log = <<>> THEN <<>>
  ELSE (IF Head(log).role = role THEN Head(log).text ELSE <<>>)
       \o ConcatRole(Tail(log), role)

Entry(role, text, shown) ==
  IF Trim(text) # <<>> THEN <<[role |-> role, text |-> shown]>> ELSE <<>>

\* C4: a handled turnComplete appends a user entry (if the trimmed user
\* accumulator is non-empty) followed by an assistant entry (likewise), each
\* entry's text being the concatenation of that role's deltas since the last
\* flush in arrival order, and leaves both accumulators empty.
C4_FlushRaw ==
  lastOp.op = "turnComplete" =>
    LET u == ConcatRole(lastOp.log, "user")
        a == ConcatRole(lastOp.log, "assistant")
    IN /\ transcriptions = lastOp.hist \o Entry("user", u, u) \o Entry("assistant", a, a)
       /\ currentInputTranscriptionRef = <<>>
       /\ currentOutputTranscriptionRef = <<>>

\* C4 (amended): as above, each entry's text being that concatenation with
\* its leading and trailing whitespace removed.
C4_FlushTrimmed ==
  lastOp.op = "turnComplete" =>
    LET u == ConcatRole(lastOp.log, "user")
        a == ConcatRole(lastOp.log, "assistant")
    IN /\ transcriptions
            = lastOp.hist \o Entry("user", u, Trim(u)) \o Entry("assistant", a, Trim(a))
       /\ currentInputTranscriptionRef = <<>>
       /\ currentOutputTranscriptionRef = <<>>

\* deltas arrived assistant, user, assistant; the flush appended the user
\* entry and then the assistant entry
C4_Witness ==
  /\ lastOp.op = "turnComplete"
  /\ Len(lastOp.log) = 3
  /\ lastOp.log[1].role = "assistant"
  /\ lastOp.log[2].role = "user"
  /\ lastOp.log[3].role = "assistant"
  /\ Len(transcriptions) = Len(lastOp.hist) + 2
  /\ transcriptions[Len(transcriptions) - 1].role = "user"
  /\ transcriptions[Len(transcriptions)].role = "assistant"

(***************************************************************************)
(* The transcript history: one session, transcription messages and         *)
(* sendText in any order.                                                  *)
(***************************************************************************)
MaxEntryMsgs == 2

NextEntries ==
  \/ StartOnce
  \/ \E s \in StartIds : ResumeInSettled(s)
  \/ \E s \in StartIds : ResumeOutSettled(s)
  \/ \E s \in StartIds : GetUserMediaResolved(s)
  \/ \E s \in StartIds : OnOpen(s)
  \/ \E s \in StartIds, msg \in TextMsgs : msgCount < MaxEntryMsgs /\ OnMessage(s, msg)
  \/ \E c \in Texts, t \in Texts : HandleSendText(c, t)

SpecEntries == Init /\ [][NextEntries]_vars

AllSpace(s) == \A i \in 1..Len(s) : s[i] = " "

\* the roles of the entries the last turnComplete appended
AddedRoles ==
  {transcriptions[i].role : i \in (Len(lastOp.hist) + 1)..Len(transcriptions)}

\* C12: every entry of the history has non-empty text; a turnComplete appends
\* no entry for a role whose accumulated text is empty or only whitespace, and
\* appends nothing when that is so for both roles.
C12_NonEmptyEntries ==
  /\ \A i \in 1..Len(transcriptions) : transcriptions[i].text # <<>>
  /\ lastOp.op = "turnComplete" =>
       LET u == ConcatRole(lastOp.log, "user")
           a == ConcatRole(lastOp.log, "assistant")
       IN /\ AllSpace(u) => "user" \notin AddedRoles
          /\ AllSpace(a) => "assistant" \notin AddedRoles
          /\ (AllSpace(u) /\ AllSpace(a)) => transcriptions = lastOp.hist

\* after a sendText entry, a turn with only whitespace on the user side and
\* text on the assistant side appended the assistant entry alone
C12_Witness ==
  /\ lastOp.op = "turnComplete"
  /\ Len(lastOp.hist) >= 1
  /\ ConcatRole(lastOp.log, "user") # <<>>
  /\ AllSpace(ConcatRole(lastOp.log, "user"))
  /\ ~AllSpace(ConcatRole(lastOp.log, "assistant"))
  /\ AddedRoles = {"assistant"}
  /\ Len(transcriptions) = Len(lastOp.hist) + 1

(***************************************************************************)
(* Playback while handlers are suspended at the await of decodeAudioData   *)
(* (under SpecPlay)                                                        *)
(***************************************************************************)
\* C18: a buffer whose decode was in flight when an interrupted signal was
\* handled is never started and never enters the live set.
C18_InterruptAtomic ==
  \A k \in 1..Len(started) : ~started[k].hit

\* the decodes in flight that no interrupt has cancelled
PendingDecodes == {h \in MsgIds : handlers[h].pc = "decode" /\ ~handlers[h].hit}

\* C19: the counter is never negative and equals the number of buffers whose
\* decode is in flight or that are in the live set.
C19_CounterExact ==
  /\ activeAudioCountRef >= 0
  /\ activeAudioCountRef
       = Cardinality(PendingDecodes) + Cardinality(activeSourcesRef)

\* C20: every buffer is started at a time that is not before the output clock
\* at the moment of source.start, and not before the scheduled end of the
\* buffer started before it.
C20_NeverInPast ==
  /\ \A k \in 1..Len(started) : started[k].t >= started[k].at
  /\ \A k \in 1..Len(started) :
       Consecutive(k) => started[k + 1].t >= started[k].t + started[k].d

\* C21: handling an interrupted signal sets nextStartTime to the output
\* clock's current time.
C21_InterruptSetsClock ==
  lastOp.op = "interrupted" /\ outputAudioContextRef # 0
    => nextStartTimeRef = NowOf(outputAudioContextRef)

\* every buffer that was enqueued has played to its end, failed to decode, or
\* was stopped and had its ended callback run
AudioQuiet ==
  /\ \A h \in MsgIds : handlers[h].pc # "decode"
  /\ \A x \in SrcIds : srcState[x] \notin {"live", "stopped"}

\* C22: once every enqueued buffer has completed, failed to decode or been
\* stopped, the assistant-speaking flag is false; nothing but further audio
\* sets it afterwards, so a quiet state with the flag set keeps it set.
C22_SpeakingSettles == AudioQuiet => ~isAiSpeaking

\* C23: while the live source set is non-empty the assistant-speaking flag is
\* true.
C23_SpeakingWhileLive == activeSourcesRef # {} => isAiSpeaking

\* invocation h is suspended at the decode of a buffer that fails to decode
Doomed(h) == h.pc = "decode" /\ ~h.msg.parts[h.i].ok

\* C24: a buffer whose decode fails leaves nextStartTime as it was: neither
\* the step that takes the buffer up nor the step of its catch changes it; the
\* catch leaves the live set and status unchanged and takes the counter back
\* by one, not below zero.
C24_ChunkIsolation ==
  [][\A hid \in MsgIds :
       /\ (handlers[hid].pc # "decode" /\ Doomed(handlers'[hid]))
            => nextStartTimeRef' = nextStartTimeRef
       /\ (Doomed(handlers[hid]) /\ handlers'[hid].pc # "decode")
            => /\ nextStartTimeRef' = nextStartTimeRef
               /\ activeSourcesRef' = activeSourcesRef
               /\ status' = status
               /\ activeAudioCountRef' = activeAudioCountRef - 1
               /\ activeAudioCountRef' >= 0]_vars

\* the number of media chunks, and of greeting instructions, sent on the
\* channel of session s
MediaSent(s) == Count(sent[s], "media")
GreetingsSent(s) == Count(sent[s], "greeting")

\* C26: a microphone block is processed (the user-speaking flag set, a media
\* chunk sent) only on an open session: the channel is open and stop() has
\* not asked it to close.
C26_CaptureWhileOpen ==
  [][\A s \in StartIds :
       Count(sent'[s], "media") > MediaSent(s)
         => chan[s] = "open" /\ s \notin closeAsked]_vars

\* C27: the greeting instruction is sent by the step that takes status from
\* Connecting to Connected, on the channel that opens in that step, once,
\* before any media chunk of that session and never for a start() that
\* failed; and every step from Connecting to Connected sends it.
C27_GreetingOnce ==
  [][/\ \A s \in StartIds :
          Count(sent'[s], "greeting") > GreetingsSent(s)
            => /\ status = CONNECTING /\ status' = CONNECTED
               /\ chan[s] = "connecting" /\ chan'[s] = "open"
               /\ GreetingsSent(s) = 0
               /\ MediaSent(s) = 0
               /\ startPc[s] # "failed"
     /\ (status = CONNECTING /\ status' = CONNECTED)
          => \E s \in StartIds : Count(sent'[s], "greeting") > GreetingsSent(s)
    ]_vars

(***************************************************************************)
(* Tool calls handled by the second App component of the file              *)
(***************************************************************************)
NextTool2 ==
  \/ StartOnce
  \/ \E s \in StartIds : ResumeInSettled(s)
  \/ \E s \in StartIds : ResumeOutSettled(s)
  \/ \E s \in StartIds : GetUserMediaResolved(s)
  \/ \E s \in StartIds : OnOpen(s)
  \/ \E s \in StartIds, msg \in ToolMsgs :
       msgCount < MaxToolMsgs /\ OnMessage(s, msg)
  \/ \E h \in MsgIds : ActionSettled2(h)
  \/ FlagTimerFired

SpecTool2 == Init /\ [][NextTool2]_vars

\* C28: the response to an invocation whose action failed is the only one
\* for its id, carries the name the call was received with and status error,
\* and the last-booking summary is not that invocation's.
C28_FailureAnswersError ==
  \A k \in 1..Len(responses) :
    responses[k].failed =>
      /\ Cardinality(ResponsesTo(responses[k].id)) = 1
      /\ responses[k].name = received[responses[k].id]
      /\ responses[k].status = "error"
      /\ lastBooking # responses[k].id

\* C29: from stop() to the next start() (the output context ref is null) no
\* step but start() and stop() changes status; and onclose or onerror of a
\* session older than the newest one never changes status.
C29_StoppedStaysStopped ==
  [][/\ (outputAudioContextRef = 0 /\ lastOp'.op \notin {"start", "stop"})
          => status' = status
     /\ \A s \in StartIds :
          (s < startCount /\ chan'[s] # chan[s]
             /\ chan'[s] \in {"closed", "errored"})
            => status' = status]_vars

\* C30: from stop() to the next start() (the output context ref is null) the
\* live source set is empty.
C30_NothingLiveAfterStop == outputAudioContextRef = 0 => activeSourcesRef = {}

\* C31: nothing is sent on a channel stop() has asked to close, and a tool
\* action of such a session that settles sends no response and leaves the
\* last-booking summary alone.
C31_SilentAfterClose ==
  [][/\ \A s \in closeAsked : sent'[s] = sent[s]
     /\ \A hid \in MsgIds :
          (handlers[hid].pc = "action" /\ handlers[hid].s \in closeAsked
             /\ handlers'[hid] # handlers[hid])
            => responses' = responses /\ lastBooking' = lastBooking]_vars

(***************************************************************************)
(* Restart: sessions started and stopped by the toggle, messages with one  *)
(* audio buffer on the channel of the current session handle.              *)
(***************************************************************************)
MaxRestartMsgs == 2

RestartMsgs == {[EmptyMsg EXCEPT !.parts = <<AudioPart(1, TRUE)>>]}

NextRestart ==
  \/ HandleToggleConnection
  \/ \E s \in StartIds : ResumeInSettled(s)
  \/ \E s \in StartIds : ResumeOutSettled(s)
  \/ \E s \in StartIds : GetUserMediaResolved(s)
  \/ \E s \in StartIds : OnOpen(s)
  \/ \E msg \in RestartMsgs :
       /\ msgCount < MaxRestartMsgs
       /\ sessionPromiseRef \in StartIds
       /\ OnMessage(sessionPromiseRef, msg)
  \/ \E h \in MsgIds : DecodeSettled(h)
  \/ \E c \in StartIds : Tick(c)

SpecRestart == Init /\ [][NextRestart]_vars

\* buffer k is the first one started on its output context
FirstOfSession(k) == \A j \in 1..(k - 1) : started[j].ctx # started[k].ctx

\* C25: right after stop() nextStartTime has the value interrupt resets it
\* to, and the first buffer of a session is started at a time that is not
\* later than the output clock of that session at that moment, not at a time
\* carried over from the session before.
C25_StopResetsClock ==
  /\ lastOp.op = "stop" => nextStartTimeRef = InterruptedNextStart(0)
  /\ \A k \in 1..Len(started) :
       FirstOfSession(k) => started[k].t <= started[k].at

(***************************************************************************)
(* Transcription across sessions: sessions started and stopped by the      *)
(* toggle, transcription messages on the channel of the current session    *)
(* handle.                                                                 *)
(***************************************************************************)
MaxCarryMsgs == 2

CarryMsgs ==
  {[EmptyMsg EXCEPT !.inT = i, !.outT = o, !.turnComplete = t] :
     i \in {<<>>, <<"a">>}, o \in {<<>>, <<"a">>}, t \in BOOLEAN} \ {EmptyMsg}

NextCarry ==
  \/ HandleToggleConnection
  \/ \E s \in StartIds : ResumeInSettled(s)
  \/ \E s \in StartIds : ResumeOutSettled(s)
  \/ \E s \in StartIds : GetUserMediaResolved(s)
  \/ \E s \in StartIds : OnOpen(s)
  \/ \E msg \in CarryMsgs :
       /\ msgCount < MaxCarryMsgs
       /\ sessionPromiseRef \in StartIds
       /\ OnMessage(sessionPromiseRef, msg)

SpecCarry == Init /\ [][NextCarry]_vars

\* session s has ended: stop() asked its channel to close, or the channel
\* closed or reported an error
Ended(s) == s \in closeAsked \/ chan[s] \in {"closed", "errored"}

\* C32: the entries a turnComplete emits hold no delta received in another
\* session that has ended: every delta accumulated at that moment was
\* received in the session the turnComplete belongs to, or in one that is
\* still running.
C32_AccumulatorsPerSession ==
  lastOp.op = "turnComplete" =>
    \A i \in 1..Len(lastOp.log) :
      lastOp.log[i].s = lastOp.s \/ ~Ended(lastOp.log[i].s)

(***************************************************************************)
(* The history across the operations: sessions started and stopped by the  *)
(* toggle button, sendText, and on the channel of the current session      *)
(* handle errors, closes and messages with a transcription delta, a        *)
(* turnComplete or an interrupted signal.                                  *)
(***************************************************************************)
MaxHistMsgs == 1

HistMsgs ==
  {[EmptyMsg EXCEPT !.inT = <<"a">>],
   [EmptyMsg EXCEPT !.outT = <<"a">>, !.turnComplete = TRUE],
   [EmptyMsg EXCEPT !.interrupted = TRUE]}

\* App.tsx:311-312: the toggle button, which the view disables while status
\* is Connecting
ToggleButton == status # CONNECTING /\ HandleToggleConnection

NextHist ==
  \/ ToggleButton
  \/ \E s \in StartIds : ResumeInSettled(s)
  \/ \E s \in StartIds : ResumeOutSettled(s)
  \/ \E s \in StartIds : GetUserMediaResolved(s)
  \/ \E s \in StartIds : OnOpen(s)
  \/ sessionPromiseRef \in StartIds /\ OnError(sessionPromiseRef)
  \/ sessionPromiseRef \in StartIds /\ OnClose(sessionPromiseRef)
  \/ \E msg \in HistMsgs :
       /\ msgCount < MaxHistMsgs
       /\ sessionPromiseRef \in StartIds
       /\ OnMessage(sessionPromiseRef, msg)
  \/ \E t \in Texts : HandleSendText(<<>>, t)

SpecHist == Init /\ [][NextHist]_vars

IsPrefix(a, b) == Len(a) <= Len(b) /\ SubSeq(b, 1, Len(a)) = a

\* C33: every step leaves the entries the history holds in place and in
\* order, adding entries only at its end, and only a sendText or the flush of
\* a turnComplete adds any.
C33_AppendOnly ==
  [][/\ IsPrefix(transcriptions, transcriptions')
     /\ transcriptions' # transcriptions
          => lastOp'.op \in {"sendText", "turnComplete"}]_vars

\* a session was stopped and another started with the history holding the
\* entry of a sendText and, after it, the entry of a flush
C33_Witness ==
  /\ lastOp.op = "start"
  /\ Len(transcriptions) = 2
  /\ transcriptions[1].role = "user"
  /\ transcriptions[2].role = "assistant"
  /\ startCount = 2

(***************************************************************************)
(* Arrival order: one session, messages with audio and transcription, the  *)
(* decodes settling in any order.                                          *)
(***************************************************************************)
MaxOrderMsgs == 2

OrderMsgs ==
  {[EmptyMsg EXCEPT !.parts = <<AudioPart(1, TRUE)>>, !.outT = <<"a">>],
   [EmptyMsg EXCEPT !.parts = <<AudioPart(2, TRUE)>>],
   [EmptyMsg EXCEPT !.outT = <<"b">>]}

NextOrder ==
  \/ StartOnce
  \/ \E s \in StartIds : ResumeInSettled(s)
  \/ \E s \in StartIds : ResumeOutSettled(s)
  \/ \E s \in StartIds : GetUserMediaResolved(s)
  \/ \E s \in StartIds : OnOpen(s)
  \/ \E s \in StartIds, msg \in OrderMsgs : msgCount < MaxOrderMsgs /\ OnMessage(s, msg)
  \/ \E h \in MsgIds : DecodeSettled(h)
  \/ \E c \in StartIds : Tick(c)

SpecOrder == Init /\ [][NextOrder]_vars

\* part a arrived before part b
ArrivedBefore(a, b) == a.msg < b.msg \/ (a.msg = b.msg /\ a.part < b.part)

\* C15: audio buffers are started in the order their parts arrived, at times
\* that do not decrease, and the transcription deltas are applied to the
\* accumulators in the order their messages arrived.
C15_ArrivalOrder ==
  /\ \A k, l \in 1..Len(started) :
       k < l => /\ ArrivedBefore(started[k], started[l])
                /\ started[k].t <= started[l].t
  /\ \A i, j \in 1..Len(turnLog) : i < j => turnLog[i].msg <= turnLog[j].msg

(***************************************************************************)
(* The audio chunk codec (createPcmBlob, App.tsx:125, and decode,          *)
(* App.tsx:175).  Its code, src/utils/audioUtils, is not part of the       *)
(* sources; it is modelled from sections 4.1 and 8 of the specification.   *)
(* A sample is an integer number of grid steps, SampleGrid steps to one    *)
(* quantization step 1/32767, so 1.0 is SampleGrid * FULL_SCALE.           *)
(***************************************************************************)
MaxSamples == 2     \* samples of a block
SampleGrid == 2     \* grid steps per quantization step

FULL_SCALE == 32767
INT16_MIN == -32768
INT16_MAX == 32767
WORD == 65536
BYTE == 256

\* Math.round of n / SampleGrid: to the nearest integer, a half rounds up
RoundSample(n) == (2 * n + SampleGrid) \div (2 * SampleGrid)

Clamp16(k) ==
  IF k < INT16_MIN THEN INT16_MIN ELSE IF k > INT16_MAX THEN INT16_MAX ELSE k

\* faulty variant: the scaled sample is stored without clamping and wraps
EncodeSampleWrap(n) ==
  LET u == RoundSample(n) % WORD IN IF u > INT16_MAX THEN u - WORD ELSE u

\* section 4.1: round(sample * 32767), clamped to the representable range
EncodeSample(n) == Clamp16(RoundSample(n))

\* the two bytes of a 16-bit signed integer, little-endian
Int16Bytes(k) == LET u == k % WORD IN <<u % BYTE, u \div BYTE>>

\* the 16-bit signed integer two little-endian bytes hold
Int16Of(lo, hi) ==
  LET u == lo + BYTE * hi IN IF u > INT16_MAX THEN u - WORD ELSE u

RECURSIVE Encode(_)
Encode(samples) ==
  IF samples = <<>> THEN <<>>
  ELSE Int16Bytes(EncodeSample(Head(samples))) \o Encode(Tail(samples))

\* section 4.1: the inverse mapping, back to normalized samples
DecodeSample(lo, hi) == Int16Of(lo, hi) * SampleGrid

RECURSIVE DecodeSamples(_)
DecodeSamples(bytes) ==
  IF bytes = <<>> THEN <<>>
  ELSE <<DecodeSample(bytes[1], bytes[2])>>
       \o DecodeSamples(SubSeq(bytes, 3, Len(bytes)))

\* section 4.1: a length that is not a multiple of the sample width fails
Decode(bytes) ==
  IF Len(bytes) % 2 # 0
  THEN [ok |-> FALSE, samples |-> <<>>]
  ELSE [ok |-> TRUE, samples |-> DecodeSamples(bytes)]

CodecFrame ==
  /\ lastOp' = Other
  /\ UNCHANGED <<stateVars, refVars, apiKey, micHeld, startCount, startPc,
                 inCtx, outCtx, clock, chan, closeAsked, captureOn, sent,
                 msgCount, handlers, started, srcState, fcCount, received,
                 responses, flagTimers, cutSinceStart, lateSinceStart,
                 turnLog, interruptSeen>>

\* App.tsx:125: createPcmBlob(inputData) encodes a captured block
CreatePcmBlob(samples) ==
  /\ codec.pc = "none"
  /\ codec' = [pc |-> "encoded", samples |-> samples,
               bytes |-> Encode(samples), out |-> <<>>]
  /\ CodecFrame

\* the encoded block is decoded again
DecodeBlob ==
  /\ codec.pc = "encoded"
  /\ codec' = [codec EXCEPT !.pc = "decoded", !.out = Decode(codec.bytes)]
  /\ CodecFrame

\* App.tsx:175: decode(base64Audio) of the bytes of an inbound audio part
DecodeInbound(bytes) ==
  /\ codec.pc = "none"
  /\ codec' = [pc |-> "inbound", samples |-> <<>>, bytes |-> bytes,
               out |-> Decode(bytes)]
  /\ CodecFrame

\* samples on and next to the ends of [-1, 1], around 0, on and between
\* quantization steps, and beyond the range on both sides
SampleVals ==
  LET one == SampleGrid * FULL_SCALE
  IN {-one - 2 * SampleGrid, -one, 1 - one, -1, 0, 1, SampleGrid,
      SampleGrid + 1, one - 1, one, one + 2 * SampleGrid}

ByteVals == {0, 1, 128, 255}

SeqsUpTo(S, n) == UNION {[1..k -> S] : k \in 0..n}

NextCodec ==
  \/ \E samples \in SeqsUpTo(SampleVals, MaxSamples) : CreatePcmBlob(samples)
  \/ DecodeBlob
  \/ \E bytes \in SeqsUpTo(ByteVals, MaxSamples + 1) : DecodeInbound(bytes)

SpecCodec == Init /\ [][NextCodec]_vars

Abs(n) == IF n < 0 THEN -n ELSE n

\* k is n / SampleGrid rounded to the nearest integer and clamped to 16 bits
IsQuantized(k, n) ==
  IF 2 * n >= 2 * SampleGrid * INT16_MAX + SampleGrid THEN k = INT16_MAX
  ELSE IF 2 * n < 2 * SampleGrid * INT16_MIN - SampleGrid THEN k = INT16_MIN
  ELSE /\ 2 * SampleGrid * k - SampleGrid <= 2 * n
       /\ 2 * n < 2 * SampleGrid * k + SampleGrid

\* C17: the encoding of a block holds, per sample, round(sample * 32767)
\* clamped to the signed 16-bit range as two little-endian bytes; decoding it
\* returns every sample of [-1, 1] within 1/32767 of the original; decoding a
\* byte buffer of odd length fails.
C17_CodecRoundTrip ==
  /\ codec.pc \in {"encoded", "decoded"} =>
       /\ Len(codec.bytes) = 2 * Len(codec.samples)
       /\ \A i \in 1..Len(codec.samples) :
            /\ codec.bytes[2 * i - 1] \in 0..(BYTE - 1)
            /\ codec.bytes[2 * i] \in 0..(BYTE - 1)
            /\ IsQuantized(Int16Of(codec.bytes[2 * i - 1], codec.bytes[2 * i]),
                           codec.samples[i])
  /\ codec.pc = "decoded" =>
       /\ codec.out.ok
       /\ Len(codec.out.samples) = Len(codec.samples)
       /\ \A i \in 1..Len(codec.samples) :
            Abs(codec.samples[i]) <= SampleGrid * FULL_SCALE
              => Abs(codec.out.samples[i] - codec.samples[i]) <= SampleGrid
  /\ (codec.pc = "inbound" /\ Len(codec.bytes) % 2 = 1) => ~codec.out.ok

\* a block with -1.0 and a sample between two quantization steps went through
\* the codec and back
C17_Witness ==
  /\ codec.pc = "decoded"
  /\ Len(codec.samples) = 2
  /\ codec.samples[1] = -(SampleGrid * FULL_SCALE)
  /\ codec.samples[2] % SampleGrid # 0
  /\ codec.out.samples[1] = codec.samples[1]
  /\ codec.out.samples[2] # codec.samples[2]

====
